---- MODULE Spec2Model ----
(***************************************************************************)
(* Model of the delivery-route pipeline of source/modules/osrm.py and      *)
(* source/modules/utilities.py:                                            *)
(*   OSRM.large_table  - tiled origin/destination matrix assembly          *)
(*   label_routes      - complete-linkage partition into K routes          *)
(*   OSRM.tsp          - one trip call per route                           *)
(*   parse_routes      - positional merge of the tours onto the addresses  *)
(* The routing engine (OSRM HTTP service) and the clustering library are   *)
(* collaborators: they are modelled by their request/response contract.    *)
(* Durations and distances are integers in tenths of a unit, the precision *)
(* of the engine's JSON.                                                   *)
(***************************************************************************)
EXTENDS Integers, Sequences, FiniteSets, TLC

\* ------------------------------------------------------------------ bounds
\* Largest number of locations given to large_table.
MaxN == 250
\* Every location count up to SmallN is tried; above it, the counts next to
\* a block boundary (a multiple of the batch, one less, one more) and the
\* counts that end in half a batch.
SmallN == 3
\* Number of engine data sets (seed 0: every pair routable; others: some
\* pairs have the null sentinel).
MaxSeed == 1

\* Route labels in the address table given to tsp are drawn from 0..MaxLabel.
MaxLabel == 2
\* The address table is a freely labelled head of at most MaxHead addresses,
\* followed by a (possibly empty) run of addresses of one route.
MaxHead == 3
\* The run is empty or has MaxStops - 2 .. MaxStops - 1 + MaxOver addresses, so
\* that a route reaches and exceeds the stop limit of a trip call.
MaxOver == 1

\* label_routes is given matrices of 0..MaxPoints addresses,
MaxPoints == 4
\* filled from MaxMatrixSeed + 1 data sets.
MaxMatrixSeed == 2

\* ------------------------------------------------------- program constants
\* The per-axis batch of large_table (start_i = i * 100, end_i = start_i + 100).
BatchSize == 100

\* route_df[:100]: the most coordinates a trip call is given.
MaxStops == 100

\* The engine's sentinel for "no route between the pair" (JSON null -> None).
Null == -1

VARIABLES
  \* ---- OSRM.large_table
  num_locations,     \* locations.shape[0]
  engine_seed,       \* which engine data set answers the table queries
  lt_pc,             \* "idle" | "loop" | "assembled" | "saved" | "failed"
  lt_error,          \* exception that ended large_table, "none" if none
  lt_i, lt_j,        \* loop counters of the two nested for loops
  duration_row, distance_row,        \* the row pass under construction
  duration_matrix, distance_matrix,  \* rows stacked so far
  table_calls,       \* the table queries issued, in order
  duration_file, distance_file,      \* the csv files written by np.savetxt
  \* ---- OSRM.tsp and parse_routes
  routes,            \* routes['route']: the route label of each address
  has_depot,         \* FALSE when tsp is called with source=None
  tsp_pc,            \* "idle" | "loop" | "returned" | "raised"
  tsp_error,         \* exception that ended tsp, "none" if none
  tsp_route,         \* the loop variable `route`
  route_table,       \* the rows appended so far (index = position - 1)
  trip_calls,        \* the trip queries issued, in order
  pr_pc,             \* "idle" | "returned" | "raised"
  a,                 \* the table returned by parse_routes
  \* ---- label_routes
  n_routes,          \* the parameter n_routes (K)
  df,                \* the matrix read from the csv file
  lr_pc,             \* "idle" | "fit" | "linkage" | "returned" | "raised"
  lr_error,          \* exception that ended label_routes, "none" if none
  clusters,          \* the clusters of the linkage so far
  labels_            \* pipe['clustering'].labels_

lt_vars == <<num_locations, engine_seed, lt_pc, lt_error, lt_i, lt_j,
             duration_row, distance_row, duration_matrix, distance_matrix,
             table_calls, duration_file, distance_file>>

tsp_vars == <<routes, has_depot, tsp_pc, tsp_error, tsp_route, route_table,
              trip_calls, pr_pc, a>>

lr_vars == <<n_routes, df, lr_pc, lr_error, clusters, labels_>>

vars == <<lt_vars, tsp_vars, lr_vars>>

\* ------------------------------------------------------------ helpers
\* list(range(lo, hi))
Range(lo, hi) == [k \in 1..(IF hi > lo THEN hi - lo ELSE 0) |-> lo + k - 1]

Min(x, y) == IF x < y THEN x ELSE y

\* ------------------------------------------------------------ the engine
\* The engine's pair reachability for a data set.
Unreachable(seed, r, c) == seed > 0 /\ r # c /\ (r + 3 * c + seed) % 53 = 7

\* The engine's duration from location r to location c (directed).
EngineDuration(seed, r, c) ==
  IF r = c THEN 0
  ELSE IF Unreachable(seed, r, c) THEN Null
  ELSE 1000 * r + c + 1

\* The engine's distance from location r to location c (directed).
EngineDistance(seed, r, c) ==
  IF r = c THEN 0
  ELSE IF Unreachable(seed, r, c) THEN Null
  ELSE 1000 * c + r + 500000

\* Response of OSRM.table for the given sources and destinations: one
\* |sources| x |destinations| matrix per annotation.
TableResponse(seed, sources, destinations) ==
  [durations |-> [x \in 1..Len(sources) |-> [y \in 1..Len(destinations) |->
                    EngineDuration(seed, sources[x], destinations[y])]],
   distances |-> [x \in 1..Len(sources) |-> [y \in 1..Len(destinations) |->
                    EngineDistance(seed, sources[x], destinations[y])]]]

\* What a tile request can come back with: a well-formed response, a
\* transport error raised by requests.get, an error body without the
\* 'durations' key, a body without 'distances', or sub-matrices that are one
\* row short or one column narrow.
TileOutcomes ==
  {"ok", "raise", "no_durations", "no_distances", "short", "narrow"}

\* The sub-matrix as it arrives.
Received(outcome, m) ==
  IF outcome = "short" THEN Tail(m)
  ELSE IF outcome = "narrow"
    THEN [r \in 1..Len(m) |-> SubSeq(m[r], 1, Len(m[r]) - 1)]
  ELSE m

\* ------------------------------------------------------------ numpy
\* np.empty((h, 0))
EmptyRows(h) == [k \in 1..h |-> <<>>]

\* np.c_[row, tile] is defined when both have the same number of rows.
CanHStack(row, tile) == Len(row) = Len(tile)
HStack(row, tile) == [k \in 1..Len(row) |-> row[k] \o tile[k]]

\* np.r_[matrix, row] with matrix of width `width` is defined when every
\* row of `row` has that width.
CanVStack(width, row) == \A k \in 1..Len(row) : Len(row[k]) = width
VStack(matrix, row) == matrix \o row

\* ------------------------------------------------------------ large_table
\* math.ceil(num_locations / 100)
Ceiling(n) == (n + BatchSize - 1) \div BatchSize

\* start_i / end_i (and start_j / end_j) of block b
BlockStart(b) == b * BatchSize

\* (mutant) the end of the last block is not cut back to num_locations
BlockEndUnclamped(b, n) == BlockStart(b) + BatchSize

BlockEnd(b, n) ==
  IF BlockStart(b) + BatchSize > n THEN n ELSE BlockStart(b) + BatchSize

\* (mutant) the row pass always starts as np.empty((100, 0))
RowPassHeightFull(i, n) == BatchSize

\* Height of the np.empty((h, 0)) that starts row pass i
RowPassHeight(i, n) ==
  IF BlockStart(i) + BatchSize > n THEN n - BlockStart(i) ELSE BatchSize

\* (mutant) the tile is put to the left of what the row pass holds
PlaceTileLeft(row, tile) == HStack(tile, row)

\* Where the tile's columns go in the row pass: appended on the right.
PlaceTile(row, tile) == HStack(row, tile)

\* (mutant) np.savetxt indented into the loops
SaveInsideLoop == lt_pc \in {"loop", "assembled"}

\* np.savetxt comes after both loops: it runs once they are over.
CanSave == lt_pc = "assembled"

\* The location counts tried.
LocationCounts ==
  {n \in 1..MaxN : \/ n <= SmallN
                   \/ n % BatchSize \in {0, 1, BatchSize \div 2, BatchSize - 1}}

NoFile == [exists |-> FALSE, rows |-> 0]

LtFail(err) ==
  /\ lt_pc' = "failed"
  /\ lt_error' = err
  /\ UNCHANGED <<lt_i, lt_j, duration_row, distance_row,
                 duration_matrix, distance_matrix>>

\* One pass of the inner loop body (lines 312-333), with the start of the
\* row pass (300-310) when j = 0 and its end (340-341) when j is the last
\* column block.
LargeTableTile ==
  /\ lt_pc = "loop"
  /\ \E outcome \in TileOutcomes :
     LET n       == num_locations
         sources == Range(BlockStart(lt_i), BlockEnd(lt_i, n))
         dests   == Range(BlockStart(lt_j), BlockEnd(lt_j, n))
         full    == TableResponse(engine_seed, sources, dests)
         durs    == Received(outcome, full.durations)
         dists   == Received(outcome, full.distances)
         drow0   == IF lt_j = 0 THEN EmptyRows(RowPassHeight(lt_i, n))
                    ELSE duration_row
         srow0   == IF lt_j = 0 THEN EmptyRows(RowPassHeight(lt_i, n))
                    ELSE distance_row
         lastj   == lt_j + 1 = Ceiling(n)
         lasti   == lt_i + 1 = Ceiling(n)
     IN
     /\ table_calls' = Append(table_calls,
           [sources |-> <<BlockStart(lt_i), BlockEnd(lt_i, n)>>,
            destinations |-> <<BlockStart(lt_j), BlockEnd(lt_j, n)>>,
            outcome |-> outcome])
     /\ IF outcome = "raise" THEN LtFail("ConnectionError")
        ELSE IF outcome \in {"no_durations", "no_distances"}
          THEN LtFail("KeyError")
        ELSE IF ~CanHStack(drow0, durs) \/ ~CanHStack(srow0, dists)
          THEN LtFail("ValueError")
        ELSE LET drow == PlaceTile(drow0, durs)
                 srow == PlaceTile(srow0, dists)
             IN
             IF ~lastj
             THEN /\ duration_row' = drow
                  /\ distance_row' = srow
                  /\ lt_j' = lt_j + 1
                  /\ UNCHANGED <<lt_i, lt_pc, lt_error,
                                 duration_matrix, distance_matrix>>
             ELSE IF ~CanVStack(n, drow) \/ ~CanVStack(n, srow)
             THEN LtFail("ValueError")
             ELSE /\ duration_matrix' = VStack(duration_matrix, drow)
                  /\ distance_matrix' = VStack(distance_matrix, srow)
                  /\ duration_row' = drow
                  /\ distance_row' = srow
                  /\ lt_i' = lt_i + 1
                  /\ lt_j' = 0
                  /\ lt_pc' = IF lasti THEN "assembled" ELSE "loop"
                  /\ UNCHANGED lt_error
  /\ UNCHANGED <<num_locations, engine_seed, duration_file, distance_file>>
  /\ UNCHANGED <<tsp_vars, lr_vars>>

\* np.savetxt(fmt='%10.1f') writes row after row; formatting a row that
\* holds None raises TypeError after the rows before it were written.
HasNull(row) == \E k \in 1..Len(row) : row[k] = Null
FirstNullRow(m) ==
  IF \E r \in 1..Len(m) : HasNull(m[r])
  THEN CHOOSE r \in 1..Len(m) : HasNull(m[r]) /\ \A q \in 1..(r - 1) : ~HasNull(m[q])
  ELSE 0
SaveTxt(m) ==
  IF FirstNullRow(m) = 0 THEN [exists |-> TRUE, rows |-> Len(m)]
  ELSE [exists |-> TRUE, rows |-> FirstNullRow(m) - 1]

\* Lines 349-363: the two matrices are written once the loops are over.
LargeTableSave ==
  /\ CanSave
  /\ duration_file' = SaveTxt(duration_matrix)
  /\ IF FirstNullRow(duration_matrix) # 0
     THEN /\ lt_pc' = "failed"
          /\ lt_error' = "TypeError"
          /\ UNCHANGED distance_file
     ELSE /\ distance_file' = SaveTxt(distance_matrix)
          /\ IF FirstNullRow(distance_matrix) # 0
             THEN lt_pc' = "failed" /\ lt_error' = "TypeError"
             ELSE lt_pc' = "saved" /\ UNCHANGED lt_error
  /\ UNCHANGED <<num_locations, engine_seed, lt_i, lt_j, duration_row,
                 distance_row, duration_matrix, distance_matrix, table_calls>>
  /\ UNCHANGED <<tsp_vars, lr_vars>>

NextTable == LargeTableTile \/ LargeTableSave


\* ------------------------------------------------------------ OSRM.tsp
\* The depot row (`source`) in a coordinate list; addresses are 1, 2, ...
Depot == 0

\* routes[routes['route'] == r]: the addresses of route r, in table order.
RouteDf(tbl, r) ==
  SelectSeq([k \in 1..Len(tbl) |-> k], LAMBDA k : tbl[k] = r)

\* routes['route'].nunique()
NUnique(tbl) == Cardinality({tbl[k] : k \in 1..Len(tbl)})

\* pd.concat([source, route_df]): a source of None is dropped by concat.
WithSource(depot, route_df) ==
  IF depot THEN <<Depot>> \o route_df ELSE route_df

\* (mutant) route_df[:99]
Head99(route_df) == SubSeq(route_df, 1, Min(MaxStops - 1, Len(route_df)))

\* route_df[:100]
Head100(route_df) == SubSeq(route_df, 1, Min(MaxStops, Len(route_df)))

\* (mutant) the slice is taken before the warehouse is added
TripCoordinatesSliceFirst(tbl, depot, r) ==
  WithSource(depot, Head100(RouteDf(tbl, r)))

\* The coordinate list of the trip call for route r.
TripCoordinates(tbl, depot, r) == Head100(WithSource(depot, RouteDf(tbl, r)))

\* The engine's tour for m submitted coordinates: entry q (1-based) is the
\* waypoint_index of the q-th submitted coordinate.  With source=first the
\* first coordinate is visited first; the engine orders the others.
TourKinds == {"rotate", "reverse"}
Tour(kind, m) ==
  [q \in 1..m |-> IF q = 1 THEN 0
                  ELSE IF kind = "rotate" THEN ((q - 1) % (m - 1)) + 1
                  ELSE m - (q - 1)]

\* What a trip request can come back with: a body with 'trips' and
\* 'waypoints', an error body without 'trips' (NoTrips, InvalidQuery...),
\* or a transport error raised by requests.get.  A request without any
\* coordinate has no valid URL and gets an error body.
TripOutcomes(coordinates) ==
  IF Len(coordinates) = 0 THEN {"no_trips", "raise"}
  ELSE {"ok", "no_trips", "raise"}

\* The engine's trip attributes for m submitted coordinates (tenths).
TripDistance(kind, m) == 1000 * m + (IF kind = "rotate" THEN 10 ELSE 20)
TripDuration(kind, m) == 100 * m + (IF kind = "rotate" THEN 1 ELSE 2)

\* The body of a successful trip response: one trip and the waypoints.
TripResponse(kind, m) ==
  [waypoints |-> Tour(kind, m),
   distance |-> TripDistance(kind, m),
   duration |-> TripDuration(kind, m)]

\* parse_parameters: a bool becomes 'true' / 'false', a str is lowercased.
ParseBool(v) == IF v THEN "true" ELSE "false"
ParseStr(v) ==
  CASE v = "First" -> "first"
    [] v = "Any" -> "any"
    [] v = "Last" -> "last"
    [] OTHER -> v

\* The query parameters of the trip call of tsp (lines 553-559).
TripParameters ==
  [roundtrip |-> ParseBool(TRUE), source |-> ParseStr("first"),
   destination |-> ParseStr("any")]

\* (mutant) the stop count is taken after the warehouse was prepended
StopCountAfterConcat(route_df) == Len(route_df) + 1

\* stops = route_df.shape[0], taken before the warehouse is added
StopCount(route_df) == Len(route_df)

\* The row tsp appends for a sequenced route (lines 564-577): the trip's
\* attributes, the waypoints, the route label and the stop count.
RouteRow(r, stops, response) ==
  [route |-> r, stops |-> stops, waypoints |-> response.waypoints,
   distance |-> response.distance, duration |-> response.duration]

\* The address tables tried: a head and a run.
RunLengths == {0} \cup ((MaxStops - 2)..(MaxStops - 1 + MaxOver))
Heads == UNION {[1..n -> 0..MaxLabel] : n \in 0..MaxHead}
RunLabel(head) == IF Len(head) = 0 THEN 0 ELSE head[Len(head)]
AddressTables ==
  {head \o [k \in 1..run |-> RunLabel(head)] : head \in Heads, run \in RunLengths}

\* One pass of the loop body (lines 544-584).
TspRoute ==
  /\ tsp_pc = "loop"
  /\ tsp_route < NUnique(routes)
  /\ LET route_df    == RouteDf(routes, tsp_route)
         stops       == StopCount(route_df)
         coordinates == TripCoordinates(routes, has_depot, tsp_route)
     IN \E outcome \in TripOutcomes(coordinates), kind \in TourKinds :
        /\ trip_calls' = Append(trip_calls,
              [route |-> tsp_route, coordinates |-> coordinates,
               roundtrip |-> TripParameters.roundtrip,
               source |-> TripParameters.source,
               destination |-> TripParameters.destination,
               outcome |-> outcome])
        /\ CASE outcome = "raise" ->
                  /\ tsp_pc' = "raised"
                  /\ tsp_error' = "ConnectionError"
                  /\ UNCHANGED <<tsp_route, route_table>>
             [] outcome = "no_trips" ->  \* except KeyError: continue
                  /\ tsp_route' = tsp_route + 1
                  /\ UNCHANGED <<tsp_pc, tsp_error, route_table>>
             [] outcome = "ok" ->
                  /\ route_table' = Append(route_table,
                        RouteRow(tsp_route, stops,
                                 TripResponse(kind, Len(coordinates))))
                  /\ tsp_route' = tsp_route + 1
                  /\ UNCHANGED <<tsp_pc, tsp_error>>
  /\ UNCHANGED <<routes, has_depot, pr_pc, a>>
  /\ UNCHANGED <<lt_vars, lr_vars>>

\* route_table.drop(['legs', 'weight_name'], axis=1, inplace=True) raises
\* KeyError when the table has no such columns, i.e. when no row was appended.
DropRaises(tbl) == Len(tbl) = 0

\* Lines 586-589, after the loop.
TspReturn ==
  /\ tsp_pc = "loop"
  /\ tsp_route = NUnique(routes)
  /\ IF DropRaises(route_table)
     THEN tsp_pc' = "raised" /\ tsp_error' = "KeyError"
     ELSE tsp_pc' = "returned" /\ UNCHANGED tsp_error
  /\ UNCHANGED <<routes, has_depot, tsp_route, route_table, trip_calls, pr_pc, a>>
  /\ UNCHANGED <<lt_vars, lr_vars>>

\* ------------------------------------------------------------ parse_routes
\* (mutant) r_index without the + 1 for the warehouse
MergeRouteUnshifted(tbl, i, row) ==
  LET route_addresses == RouteDf(tbl, i)
      matched == Min(Len(route_addresses), Len(row.waypoints))
  IN [q \in 1..matched |->
        [address |-> route_addresses[q], route |-> tbl[route_addresses[q]],
         r_index |-> q - 1, waypoint_index |-> row.waypoints[q]]]

\* (mutant) the merged rows take the route label of the route_table row
MergeRouteRelabel(tbl, i, row) ==
  LET route_addresses == RouteDf(tbl, i)
      matched == Min(Len(route_addresses), Len(row.waypoints) - 1)
  IN [q \in 1..matched |->
        [address |-> route_addresses[q], route |-> row.route,
         r_index |-> q, waypoint_index |-> row.waypoints[q + 1]]]

\* The rows of one pass of the loop (lines 271-280) for the route_table row
\* at index i: the addresses labelled i get r_index 1, 2, ... and are
\* inner-joined with the row's waypoints on r_index = position in the
\* waypoint list (0-based), keeping only the keys both sides have.
MergeRoute(tbl, i, row) ==
  LET route_addresses == RouteDf(tbl, i)
      matched == Min(Len(route_addresses), Len(row.waypoints) - 1)
  IN [q \in 1..matched |->
        [address |-> route_addresses[q], route |-> tbl[route_addresses[q]],
         r_index |-> q, waypoint_index |-> row.waypoints[q + 1]]]

\* pd.json_normalize(route['waypoints'])['waypoint_index'] raises KeyError
\* for an empty waypoint list.
MergeRaises(rt) == \E i \in 1..Len(rt) : Len(rt[i].waypoints) = 0

RECURSIVE MergeAll(_, _, _)
MergeAll(tbl, rt, n) ==
  IF n = 0 THEN <<>>
  ELSE MergeAll(tbl, rt, n - 1) \o MergeRoute(tbl, n - 1, rt[n])

\* parse_routes(route_table, addresses), lines 268-283
ParseRoutesResult(rt, tbl) == MergeAll(tbl, rt, Len(rt))

ParseRoutes ==
  /\ tsp_pc = "returned"
  /\ pr_pc = "idle"
  /\ IF MergeRaises(route_table)
     THEN pr_pc' = "raised" /\ UNCHANGED a
     ELSE pr_pc' = "returned" /\ a' = ParseRoutesResult(route_table, routes)
  /\ UNCHANGED <<routes, has_depot, tsp_pc, tsp_error, tsp_route, route_table,
                 trip_calls>>
  /\ UNCHANGED <<lt_vars, lr_vars>>

NextRoute == TspRoute \/ TspReturn \/ ParseRoutes

\* ------------------------------------------------------------ label_routes
\* The matrix files tried: an n x n table of directed costs, zero on the
\* diagonal, as large_table writes it.
Cost(seed, r, c) ==
  IF r = c THEN 0 ELSE ((r * r + 3 * c + seed * (r + 2 * c + 1)) % 7) + 1
MatrixFile(seed, n) == [r \in 1..n |-> [c \in 1..n |-> Cost(seed, r, c)]]

\* MinMaxScaler (the 'scaler' step): every column is rescaled to [0, 1] by
\* its own minimum and range; a constant column has scale 1.  The scaled
\* entry is kept as the fraction num / den.
ColMin(m, c) == CHOOSE v \in {m[r][c] : r \in 1..Len(m)} :
                  \A r \in 1..Len(m) : v <= m[r][c]
ColMax(m, c) == CHOOSE v \in {m[r][c] : r \in 1..Len(m)} :
                  \A r \in 1..Len(m) : v >= m[r][c]
Scaled(m, r, c) ==
  [num |-> m[r][c] - ColMin(m, c),
   den |-> IF ColMax(m, c) = ColMin(m, c) THEN 1 ELSE ColMax(m, c) - ColMin(m, c)]

FracLeq(f, g) == f.num * g.den <= g.num * f.den

\* affinity='precomputed': the dissimilarity of two points is the entry of
\* the scaled matrix above the diagonal.
Dissimilarity(m, p, q) == IF p < q THEN Scaled(m, p, q) ELSE Scaled(m, q, p)

\* linkage='complete': the distance of two clusters is the largest
\* dissimilarity between a member of one and a member of the other.
CompleteLinkage(m, A, B) ==
  LET ds == {Dissimilarity(m, p, q) : p \in A, q \in B}
  IN CHOOSE d \in ds : \A e \in ds : FracLeq(e, d)

ClusterPairs(cs) == {pr \in SUBSET cs : Cardinality(pr) = 2}
PairDistance(m, pr) ==
  LET A == CHOOSE x \in pr : TRUE
      B == CHOOSE y \in pr : y # A
  IN CompleteLinkage(m, A, B)

\* The pairs of clusters a merge step may join: those at the least distance.
Closest(m, cs) ==
  {pr \in ClusterPairs(cs) :
     \A other \in ClusterPairs(cs) : FracLeq(PairDistance(m, pr), PairDistance(m, other))}

\* (mutant) n_clusters=n_routes + 1
LinkageDoneOneMore(cs, k) == Cardinality(cs) = k + 1

\* n_clusters=n_routes: the agglomeration stops at n_routes clusters.
LinkageDone(cs, k) == Cardinality(cs) = k

\* (mutant) a route count above the number of samples is let through
FitErrorNoUpper(k, n) ==
  IF n = 0 THEN "EmptyDataError"
  ELSE IF n < 2 \/ k < 1 THEN "ValueError"
  ELSE "none"

\* The checks that make fit raise: pd.read_csv of an empty file
\* (EmptyDataError), fewer than 2 samples, n_clusters below 1, more
\* clusters asked for than samples.
FitError(k, n) ==
  IF n = 0 THEN "EmptyDataError"
  ELSE IF n < 2 \/ k < 1 \/ k > n THEN "ValueError"
  ELSE "none"

\* labels_: the clusters are numbered 0 .. n_clusters - 1 (here in the
\* order of their first member; the numbering itself is the library's).
RECURSIVE Numbered(_)
Numbered(cs) ==
  IF cs = {} THEN <<>>
  ELSE LET first == CHOOSE c \in cs : \A d \in cs : \E p \in c : \A q \in d : p <= q
       IN <<first>> \o Numbered(cs \ {first})
LabelsOf(cs, n) ==
  [p \in 1..n |-> (CHOOSE i \in 1..Cardinality(cs) : p \in Numbered(cs)[i]) - 1]

\* pipe.fit(df) up to the start of the linkage (lines 234-248).
LabelFit ==
  /\ lr_pc = "fit"
  /\ IF FitError(n_routes, Len(df)) # "none"
     THEN /\ lr_pc' = "raised"
          /\ lr_error' = FitError(n_routes, Len(df))
          /\ UNCHANGED clusters
     ELSE /\ lr_pc' = "linkage"
          /\ clusters' = {{p} : p \in 1..Len(df)}
          /\ UNCHANGED lr_error
  /\ UNCHANGED <<n_routes, df, labels_>>
  /\ UNCHANGED <<lt_vars, tsp_vars>>

\* One merge of the agglomeration.
LabelMerge ==
  /\ lr_pc = "linkage"
  /\ ~LinkageDone(clusters, n_routes)
  /\ Cardinality(clusters) > 1
  /\ \E pr \in Closest(df, clusters) :
       clusters' = (clusters \ pr) \cup {UNION pr}
  /\ UNCHANGED <<n_routes, df, lr_pc, lr_error, labels_>>
  /\ UNCHANGED <<lt_vars, tsp_vars>>

\* return pipe['clustering'].labels_ (line 250)
LabelReturn ==
  /\ lr_pc = "linkage"
  /\ LinkageDone(clusters, n_routes)
  /\ labels_' = LabelsOf(clusters, Len(df))
  /\ lr_pc' = "returned"
  /\ UNCHANGED <<n_routes, df, lr_error, clusters>>
  /\ UNCHANGED <<lt_vars, tsp_vars>>

NextLabel == LabelFit \/ LabelMerge \/ LabelReturn

\* ------------------------------------------------------------ specifications
\* large_table is called; tsp, parse_routes and label_routes are not.
InitTable ==
  /\ num_locations \in LocationCounts
  /\ engine_seed \in 0..MaxSeed
  /\ lt_pc = "loop"
  /\ lt_error = "none"
  /\ lt_i = 0
  /\ lt_j = 0
  /\ duration_row = <<>>
  /\ distance_row = <<>>
  /\ duration_matrix = <<>>
  /\ distance_matrix = <<>>
  /\ table_calls = <<>>
  /\ duration_file = NoFile
  /\ distance_file = NoFile
  /\ routes = <<>>
  /\ has_depot = FALSE
  /\ tsp_pc = "idle"
  /\ tsp_error = "none"
  /\ tsp_route = 0
  /\ route_table = <<>>
  /\ trip_calls = <<>>
  /\ pr_pc = "idle"
  /\ a = <<>>
  /\ n_routes = 0
  /\ df = <<>>
  /\ lr_pc = "idle"
  /\ lr_error = "none"
  /\ clusters = {}
  /\ labels_ = <<>>

\* tsp is called on an address table; large_table and label_routes are not.
InitRoute ==
  /\ routes \in AddressTables
  /\ has_depot \in BOOLEAN
  /\ tsp_pc = "loop"
  /\ tsp_error = "none"
  /\ tsp_route = 0
  /\ route_table = <<>>
  /\ trip_calls = <<>>
  /\ pr_pc = "idle"
  /\ a = <<>>
  /\ num_locations = 0
  /\ engine_seed = 0
  /\ lt_pc = "idle"
  /\ lt_error = "none"
  /\ lt_i = 0
  /\ lt_j = 0
  /\ duration_row = <<>>
  /\ distance_row = <<>>
  /\ duration_matrix = <<>>
  /\ distance_matrix = <<>>
  /\ table_calls = <<>>
  /\ duration_file = NoFile
  /\ distance_file = NoFile
  /\ n_routes = 0
  /\ df = <<>>
  /\ lr_pc = "idle"
  /\ lr_error = "none"
  /\ clusters = {}
  /\ labels_ = <<>>

\* label_routes is called on a matrix file; large_table and tsp are not.
InitLabel ==
  /\ \E n \in 0..MaxPoints, seed \in 0..MaxMatrixSeed :
       /\ df = MatrixFile(seed, n)
       /\ n_routes \in (-1)..(n + 1)
  /\ lr_pc = "fit"
  /\ lr_error = "none"
  /\ clusters = {}
  /\ labels_ = <<>>
  /\ num_locations = 0
  /\ engine_seed = 0
  /\ lt_pc = "idle"
  /\ lt_error = "none"
  /\ lt_i = 0
  /\ lt_j = 0
  /\ duration_row = <<>>
  /\ distance_row = <<>>
  /\ duration_matrix = <<>>
  /\ distance_matrix = <<>>
  /\ table_calls = <<>>
  /\ duration_file = NoFile
  /\ distance_file = NoFile
  /\ routes = <<>>
  /\ has_depot = FALSE
  /\ tsp_pc = "idle"
  /\ tsp_error = "none"
  /\ tsp_route = 0
  /\ route_table = <<>>
  /\ trip_calls = <<>>
  /\ pr_pc = "idle"
  /\ a = <<>>

\* large_table on its own
SpecTable == InitTable /\ [][NextTable]_vars

\* tsp followed by parse_routes
SpecRoute == InitRoute /\ [][NextRoute]_vars

\* label_routes on its own
SpecLabel == InitLabel /\ [][NextLabel]_vars

\* ------------------------------------------------------------ properties
\* The matrices a single unbounded table call over all n locations returns.
Unbounded(seed, n) == TableResponse(seed, Range(0, n), Range(0, n))

\* C1: once large_table has placed every tile, the duration matrix and the
\* distance matrix equal, cell for cell, the matrices of one unbounded table
\* call over all the locations, the null sentinel included.
C1_TilingLossless ==
  (lt_pc # "idle" /\ lt_i = Ceiling(num_locations)) =>
     /\ duration_matrix = Unbounded(engine_seed, num_locations).durations
     /\ distance_matrix = Unbounded(engine_seed, num_locations).distances

\* C1 witness: a 3 x 3 grid of tiles was assembled and holds a null cell.
C1_Witness ==
  /\ lt_pc = "assembled"
  /\ num_locations > 2 * BatchSize
  /\ Len(table_calls) = 9
  /\ \E r \in 1..Len(duration_matrix) : HasNull(duration_matrix[r])

\* The ok trip call of route r, if any (a route is called at most once).
OkCalls(r) ==
  {c \in 1..Len(trip_calls) : trip_calls[c].route = r /\ trip_calls[c].outcome = "ok"}

\* C2: when parse_routes merges a route with the tour of its own trip call,
\* submitted as [Depot, a_1, ..., a_n], the address submitted at position p
\* (1 <= p <= n) gets the waypoint_index of the response entry at position p,
\* and entry 0 (the Depot's) is given to no address.
C2_PositionalMerge ==
  (pr_pc = "returned" /\ has_depot) =>
    \A i \in 1..Len(route_table) :
      route_table[i].route = i - 1 =>
        \A c \in OkCalls(i - 1) :
          LET coordinates == trip_calls[c].coordinates
              waypoints   == route_table[i].waypoints
          IN /\ coordinates[1] = Depot
             /\ \A p \in 1..(Len(coordinates) - 1) :
                  \E x \in 1..Len(a) :
                    /\ a[x].address = coordinates[p + 1]
                    /\ a[x].waypoint_index = waypoints[p + 1]
             /\ \A x \in 1..Len(a) :
                  a[x].route = i - 1 =>
                    /\ a[x].r_index >= 1
                    /\ a[x].address = coordinates[a[x].r_index + 1]
                    /\ a[x].waypoint_index = waypoints[a[x].r_index + 1]

\* C2 witness: route 0 = [A, B, C] came back as [0, 2, 3, 1] and was merged
\* as A -> 2, B -> 3, C -> 1.
C2_Witness ==
  /\ pr_pc = "returned"
  /\ has_depot
  /\ route_table[1].route = 0
  /\ route_table[1].waypoints = <<0, 2, 3, 1>>
  /\ Len(a) >= 3
  /\ \A p \in 1..3 : a[p].r_index = p /\ a[p].waypoint_index = <<2, 3, 1>>[p]

\* The number of addresses of the route that the row at index i is merged
\* with, and the number of non-depot waypoints of that row.
AddressCount(i) == Len(RouteDf(routes, i - 1))
NonDepotWaypoints(i) == Len(route_table[i].waypoints) - 1

\* C3 (the claim as stated): whenever the number of addresses of a route
\* differs from the number of non-depot waypoints returned for it,
\* parse_routes ends in an error and returns no result.
C3_MismatchIsError ==
  (has_depot /\ \E i \in 1..Len(route_table) : AddressCount(i) # NonDepotWaypoints(i))
    => pr_pc # "returned"

\* C4 (the claim as stated): a route with more than 100 stops, depot
\* included, that tsp returns a tour for has every one of its addresses in
\* the coordinates of a trip call (it was split), or has no tour (rejected).
C4_NoSilentTruncation ==
  (tsp_pc = "returned" /\ has_depot) =>
    \A i \in 1..Len(route_table) :
      LET r == route_table[i].route
          route_df == RouteDf(routes, r)
      IN Len(route_df) + 1 > MaxStops =>
           \A k \in 1..Len(route_df) :
             \E c \in 1..Len(trip_calls) :
               /\ trip_calls[c].route = r
               /\ \E q \in 1..Len(trip_calls[c].coordinates) :
                    trip_calls[c].coordinates[q] = route_df[k]

\* The row of route_table that holds the tour of route r.
TourRows(r) == {i \in 1..Len(route_table) : route_table[i].route = r}

\* C5 (the claim as stated): with some routes failed and others sequenced,
\* the result holds every submitted address of every sequenced route with
\* the waypoint_index of its own route's tour, and no address annotated
\* from another route's tour.
C5_FailuresScoped ==
  (pr_pc = "returned" /\ has_depot) =>
    /\ \A c \in 1..Len(trip_calls) :
         trip_calls[c].outcome = "ok" =>
           \A p \in 2..Len(trip_calls[c].coordinates) :
             \E x \in 1..Len(a) :
               /\ a[x].address = trip_calls[c].coordinates[p]
               /\ \E i \in TourRows(trip_calls[c].route) :
                    a[x].waypoint_index = route_table[i].waypoints[p]
    /\ \A x \in 1..Len(a) :
         \E i \in TourRows(a[x].route) :
           a[x].waypoint_index = route_table[i].waypoints[a[x].r_index + 1]

\* C6 (the claim as stated): given one route or more and the depot, whatever
\* routes the engine finds no trip for, all of them included, tsp returns
\* normally (it raises only on a transport error) with one row for each
\* route whose call succeeded.
C6_FailureDoesNotAbort ==
  (has_depot /\ Len(routes) > 0) =>
  /\ tsp_pc = "raised" =>
       \E c \in 1..Len(trip_calls) : trip_calls[c].outcome = "raise"
  /\ tsp_pc = "returned" =>
       /\ Len(trip_calls) = NUnique(routes)
       /\ \A c \in 1..Len(trip_calls) :
            trip_calls[c].outcome = "ok" <=> TourRows(trip_calls[c].route) # {}

\* C7: a tile request that fails ends large_table with an error and without
\* any matrix file; a file exists only after all ceil(N/100)^2 tiles were
\* received and placed.
C7_TileFailureAborts ==
  /\ lt_error \in {"ConnectionError", "KeyError", "ValueError"} =>
       /\ lt_pc = "failed"
       /\ ~duration_file.exists
       /\ ~distance_file.exists
  /\ (duration_file.exists \/ distance_file.exists) =>
       /\ Len(table_calls) = Ceiling(num_locations) * Ceiling(num_locations)
       /\ lt_i = Ceiling(num_locations)
       /\ Len(duration_matrix) = num_locations
       /\ Len(distance_matrix) = num_locations

\* C7 witness: a tile of the second row pass failed, after a full first
\* row pass had been stacked, and nothing was written.
C7_Witness ==
  /\ lt_pc = "failed"
  /\ lt_error = "KeyError"
  /\ lt_i = 1
  /\ Len(duration_matrix) = BatchSize
  /\ ~duration_file.exists
  /\ ~distance_file.exists

\* The labels present are exactly 0 .. K-1.
LabelsContiguous == {routes[k] : k \in 1..Len(routes)} = 0..(NUnique(routes) - 1)

\* C8: when every route has at most 99 addresses and every trip call returns
\* a tour with the depot at waypoint_index 0, parse_routes returns exactly
\* one row per address, with the address's route label in [0, K) and a
\* rank >= 1.
C8_OneRowPerAddress ==
  ( /\ pr_pc = "returned"
    /\ has_depot
    /\ LabelsContiguous
    /\ \A r \in 0..MaxLabel : Len(RouteDf(routes, r)) <= MaxStops - 1
    /\ \A c \in 1..Len(trip_calls) : trip_calls[c].outcome = "ok"
    /\ \A i \in 1..Len(route_table) : route_table[i].waypoints[1] = 0 )
  =>
    /\ Len(a) = Len(routes)
    /\ \A k \in 1..Len(routes) :
         Cardinality({x \in 1..Len(a) : a[x].address = k}) = 1
    /\ \A x \in 1..Len(a) :
         /\ a[x].route = routes[a[x].address]
         /\ a[x].route \in 0..(NUnique(routes) - 1)
         /\ a[x].waypoint_index >= 1

\* C8 witness: two or more routes, one of them with exactly 99 addresses,
\* all sequenced and merged.
C8_Witness ==
  /\ pr_pc = "returned"
  /\ has_depot
  /\ LabelsContiguous
  /\ NUnique(routes) >= 2
  /\ \A c \in 1..Len(trip_calls) : trip_calls[c].outcome = "ok"
  /\ \A r \in 0..MaxLabel : Len(RouteDf(routes, r)) <= MaxStops - 1
  /\ \E r \in 0..MaxLabel : Len(RouteDf(routes, r)) = MaxStops - 1
  /\ Len(a) = Len(routes)

C10_OutOfRangeRejected ==
  ( /\ lr_pc \notin {"idle", "fit"}
    /\ \/ n_routes < 1
       \/ n_routes > Len(df)
       \/ (n_routes > 1 /\ Len(df) < 2) )
  =>
    /\ lr_pc = "raised"
    /\ lr_error # "none"
    /\ labels_ = <<>>

\* C10 witness: more routes asked for than the 2 or more addresses there are.
C10_Witness ==
  /\ lr_pc = "raised"
  /\ Len(df) >= 2
  /\ n_routes > Len(df)

\* C11 (the claim as stated): every trip call issued by tsp has the Depot as
\* the first element of its coordinate list and asks for roundtrip = true,
\* source = first and destination = any.
C11_TripFraming ==
  \A c \in 1..Len(trip_calls) :
    /\ Len(trip_calls[c].coordinates) >= 1
    /\ trip_calls[c].coordinates[1] = Depot
    /\ trip_calls[c].roundtrip = "true"
    /\ trip_calls[c].source = "first"
    /\ trip_calls[c].destination = "any"

\* C12: every trip call issued by tsp carries at most 100 coordinates,
\* depot and addresses together, whatever the size of the route.
C12_AtMost100Coordinates ==
  \A c \in 1..Len(trip_calls) : Len(trip_calls[c].coordinates) <= MaxStops

\* C12 witness: the call of a route of more than 100 stops, depot included,
\* was issued with exactly 100 coordinates.
C12_Witness ==
  \E c \in 1..Len(trip_calls) :
    /\ has_depot
    /\ Len(RouteDf(routes, trip_calls[c].route)) + 1 > MaxStops
    /\ Len(trip_calls[c].coordinates) = MaxStops

\* The index blocks [lo, hi) asked for as sources and as destinations.
SourceBlocks == {table_calls[c].sources : c \in 1..Len(table_calls)}
DestinationBlocks == {table_calls[c].destinations : c \in 1..Len(table_calls)}

\* Query c asks for the pair (source r, destination d).
Requests(c, r, d) ==
  /\ table_calls[c].sources[1] <= r
  /\ r < table_calls[c].sources[2]
  /\ table_calls[c].destinations[1] <= d
  /\ d < table_calls[c].destinations[2]

\* Two blocks [lo, hi) have an index in common.
Overlap(b1, b2) == b1[1] < b2[2] /\ b2[1] < b1[2]

\* large_table has run through both loops.
LoopsOver == lt_pc # "idle" /\ lt_i = Ceiling(num_locations)

\* C13: large_table issues ceil(N/100) x ceil(N/100) table queries, one per
\* pair of blocks, with the same consecutive blocks on both axes: no pair
\* (source, destination) is asked for twice, every query stays inside
\* [0, N) x [0, N), and once the loops are over every pair was asked for.
C13_GridCoversOnce ==
  LET n == num_locations
      g == (n + 99) \div 100
  IN
  /\ Len(table_calls) <= g * g
  /\ \A c \in 1..Len(table_calls) :
       /\ 0 <= table_calls[c].sources[1]
       /\ table_calls[c].sources[1] < table_calls[c].sources[2]
       /\ table_calls[c].sources[2] <= n
       /\ 0 <= table_calls[c].destinations[1]
       /\ table_calls[c].destinations[1] < table_calls[c].destinations[2]
       /\ table_calls[c].destinations[2] <= n
  /\ \A c1, c2 \in 1..Len(table_calls) :
       c1 < c2 =>
         \/ ~Overlap(table_calls[c1].sources, table_calls[c2].sources)
         \/ ~Overlap(table_calls[c1].destinations, table_calls[c2].destinations)
  /\ LoopsOver =>
       /\ Len(table_calls) = g * g
       /\ SourceBlocks = DestinationBlocks
       /\ Cardinality(SourceBlocks) = g
       /\ \A b \in SourceBlocks :
            b[1] = 0 \/ \E before \in SourceBlocks : before[2] = b[1]
       /\ \A r, d \in 0..(n - 1) :
            \E c \in 1..Len(table_calls) : Requests(c, r, d)

\* C13 witness: the 9 queries of 201 locations were issued and answered.
C13_Witness ==
  /\ lt_pc = "saved"
  /\ num_locations = 2 * BatchSize + 1
  /\ Len(table_calls) = 9
  /\ Cardinality(SourceBlocks) = 3

\* C14: every block has size min(100, N - block start), the row pass is as
\* high as its block (nothing is padded, so a well-formed tile always fits),
\* and both assembled matrices are N x N.
C14_BlockSizes ==
  LET n == num_locations
      size(lo) == IF n - lo < 100 THEN n - lo ELSE 100
  IN
  /\ \A c \in 1..Len(table_calls) :
       /\ table_calls[c].sources[2] - table_calls[c].sources[1]
            = size(table_calls[c].sources[1])
       /\ table_calls[c].destinations[2] - table_calls[c].destinations[1]
            = size(table_calls[c].destinations[1])
  /\ (lt_pc = "loop" /\ lt_j > 0) =>
       /\ Len(duration_row) = size(100 * lt_i)
       /\ Len(distance_row) = size(100 * lt_i)
  /\ lt_error = "ValueError" =>
       \E c \in 1..Len(table_calls) :
         table_calls[c].outcome \in {"short", "narrow"}
  /\ LoopsOver =>
       /\ Len(duration_matrix) = n
       /\ Len(distance_matrix) = n
       /\ \A r \in 1..n : Len(duration_matrix[r]) = n /\ Len(distance_matrix[r]) = n

\* C14 witness: 250 locations gave a 3 x 3 grid whose last row block and
\* column block have 50 locations, and two 250 x 250 matrices.
C14_Witness ==
  /\ lt_pc = "assembled"
  /\ num_locations = 250
  /\ Len(table_calls) = 9
  /\ table_calls[9].sources = <<200, 250>>
  /\ table_calls[9].destinations = <<200, 250>>
  /\ Len(duration_matrix) = 250
  /\ Len(distance_matrix[250]) = 250

\* The number of addresses carrying label r.
Carrying(r) == Cardinality({p \in 1..Len(routes) : routes[p] = r})

\* C15 (the claim as stated): with the depot supplied, the stop count recorded
\* for every sequenced route that has addresses equals the number of stops of
\* its tour, which is the number of addresses of the route plus one.
C15_StopsEqualTour ==
  has_depot =>
    \A x \in 1..Len(route_table) :
      Carrying(route_table[x].route) >= 1 =>
        /\ route_table[x].stops = Len(route_table[x].waypoints)
        /\ route_table[x].stops = Carrying(route_table[x].route) + 1

\* C15 (amended): the stop count recorded for a sequenced route is the number
\* of addresses carrying its label, the depot not counted and whatever the
\* tour holds; the tour has one waypoint per coordinate sent, and the distance
\* and duration recorded are those of the trip response.
C15_StopsAreAddressCount ==
  \A x \in 1..Len(route_table) :
    /\ route_table[x].stops = Carrying(route_table[x].route)
    /\ \E c \in 1..Len(trip_calls) :
         /\ trip_calls[c].route = route_table[x].route
         /\ trip_calls[c].outcome = "ok"
         /\ Len(route_table[x].waypoints) = Len(trip_calls[c].coordinates)
         /\ \E kind \in TourKinds :
              /\ route_table[x].waypoints =
                   Tour(kind, Len(trip_calls[c].coordinates))
              /\ route_table[x].distance =
                   TripDistance(kind, Len(trip_calls[c].coordinates))
              /\ route_table[x].duration =
                   TripDuration(kind, Len(trip_calls[c].coordinates))

\* C15 witness: a route of two or more addresses was sequenced from the depot
\* and its tour has one stop more than the count recorded.
C15_Witness ==
  /\ has_depot
  /\ \E x \in 1..Len(route_table) :
       /\ route_table[x].stops >= 2
       /\ Len(route_table[x].waypoints) = route_table[x].stops + 1
       /\ route_table[x].distance > 0

\* The route labels present in the routes table.
LabelsPresent == {routes[p] : p \in 1..Len(routes)}

\* The loop of tsp ran to its end.
TspLoopOver ==
  tsp_pc # "idle" /\ tsp_error # "ConnectionError" /\ tsp_route = NUnique(routes)

\* C16 (the claim as stated): with a depot, once the loop is over there is
\* exactly one trip call for each label present and none for any other label,
\* and the coordinates of the call for label r are the depot followed only by
\* addresses carrying r, in the order of the table.
C16_OneCallPerLabel ==
  (has_depot /\ TspLoopOver) =>
    /\ \A r \in LabelsPresent :
         Cardinality({c \in 1..Len(trip_calls) : trip_calls[c].route = r}) = 1
    /\ \A c \in 1..Len(trip_calls) :
         /\ trip_calls[c].route \in LabelsPresent
         /\ Len(trip_calls[c].coordinates) >= 2
         /\ trip_calls[c].coordinates[1] = Depot
         /\ \A q \in 2..Len(trip_calls[c].coordinates) :
              /\ trip_calls[c].coordinates[q] \in 1..Len(routes)
              /\ routes[trip_calls[c].coordinates[q]] = trip_calls[c].route
              /\ q > 2 => trip_calls[c].coordinates[q - 1]
                            < trip_calls[c].coordinates[q]

\* C17: in the table parse_routes returns no address appears twice, and every
\* row is an address of the input with the route label it had there.
C17_AddressesOnceAndUnchanged ==
  pr_pc = "returned" =>
    /\ \A x, y \in 1..Len(a) : x # y => a[x].address # a[y].address
    /\ \A x \in 1..Len(a) :
         /\ a[x].address \in 1..Len(routes)
         /\ a[x].route = routes[a[x].address]

\* C17 witness: parse_routes returned rows although a route failed, so that
\* a route_table row sits at an index that is not its route label.
C17_Witness ==
  /\ pr_pc = "returned"
  /\ Len(a) >= 1
  /\ \E c \in 1..Len(trip_calls) : trip_calls[c].outcome = "no_trips"
  /\ \E x \in 1..Len(route_table) : route_table[x].route # x - 1

====
